---- MODULE Spec2Model ----
(***************************************************************************)
(* A model of frostu8/among-us: the SAT collision engine (collide.rs), the *)
(* binary cursor and String codec (net/binary), and the task pool          *)
(* (game/task.rs).                                                         *)
(***************************************************************************)
EXTENDS Integers, Sequences, FiniteSets, TLC

VARIABLES
    proj,        \* collide.rs: a Projection value {start, end}
    projOp,      \* the last Projection operation and its arguments
    shapeA,      \* collide.rs: the receiver (self) of a Geometry call
    shapeB,      \* collide.rs: the argument (other) of a Geometry call
    geoOp,       \* the last Geometry operation
    geoResult,   \* its outcome: "true", "false", "panic", or "none"
    geoAxes,     \* the Vec<Vector2> returned by the last axis() call
    inner,       \* decode.rs: Cursor.inner as a sequence of bytes
    cursor,      \* decode.rs: Cursor.cursor
    returned,    \* number of bytes handed out by all reads before the last operation
    curOp,       \* the last Cursor operation, the reads it made and its result
    pool,        \* game/task.rs: TaskPool.pool, 0 is None, t > 0 is Some(task t)
    poolOp,      \* the last TaskPool operation, its result and the pool before it
    panicked     \* game/task.rs: a TaskPool call has panicked

vars == <<proj, projOp, shapeA, shapeB, geoOp, geoResult, geoAxes,
          inner, cursor, returned, curOp, pool, poolOp, panicked>>

projVars == <<proj, projOp>>
geoVars  == <<shapeA, shapeB, geoOp, geoResult, geoAxes>>
curVars  == <<inner, cursor, returned, curOp>>
poolVars == <<pool, poolOp, panicked>>

(***************************************************************************)
(* Bounds                                                                  *)
(***************************************************************************)
MaxVal == 3
MaxVerts == 3
MaxRadius == 1
MaxBytes == 4
MaxBuf == 3
MaxReturned == 6
MaxPoolLen == 3
MaxTask == 2

(***************************************************************************)
(* math.rs: FLOAT = f64.  A float is NaN or sign * m * 2^-56, with the     *)
(* magnitude m kept as two limbs <<hi, lo>>, m = hi * 2^30 + lo.  Every    *)
(* finite f64 of magnitude in [2^-4, 32), and zero, is such a number; the  *)
(* results of + - * are rounded to 53 significant bits, ties to even, as   *)
(* IEEE 754 does.  Coordinates and radii are small integers, magnitudes    *)
(* stay below 32.                                                          *)
(***************************************************************************)
Limb == 2^30

NaN == [nan |-> TRUE, neg |-> FALSE, mag |-> <<0, 0>>]

Sgn(x) == IF x > 0 THEN 1 ELSE IF x < 0 THEN -1 ELSE 0

Abs(x) == IF x < 0 THEN 0 - x ELSE x

MagZero(m) == m[1] = 0 /\ m[2] = 0

MagCmp(a, b) == IF a[1] # b[1] THEN Sgn(a[1] - b[1]) ELSE Sgn(a[2] - b[2])

MagAdd(a, b) ==
    LET lo == a[2] + b[2]
    IN IF lo >= Limb THEN <<a[1] + b[1] + 1, lo - Limb>> ELSE <<a[1] + b[1], lo>>

\* a - b for a >= b.
MagSub(a, b) ==
    IF a[2] >= b[2]
    THEN <<a[1] - b[1], a[2] - b[2]>>
    ELSE <<a[1] - b[1] - 1, (a[2] + Limb) - b[2]>>

\* m * c for an integer c >= 0.
RECURSIVE MagTimes(_, _)
MagTimes(m, c) == IF c = 0 THEN <<0, 0>> ELSE MagAdd(m, MagTimes(m, c - 1))

\* Round an exact magnitude to 53 significant bits, ties to even.
Round53(m) ==
    IF m[1] < 2^23 THEN m
    ELSE LET d == CHOOSE e \in 1..8 : m[1] >= 2^(22 + e) /\ m[1] < 2^(23 + e)
             r == m[2] % (2^d)
             odd == (m[2] \div (2^d)) % 2 = 1
             down == <<m[1], m[2] - r>>
             up == MagAdd(down, <<0, 2^d>>)
         IN IF r > 2^(d - 1) \/ (r = 2^(d - 1) /\ odd) THEN up ELSE down

\* A finite float from its sign and exact magnitude.
Num(neg, m) ==
    LET r == Round53(m)
    IN [nan |-> FALSE, neg |-> neg /\ ~MagZero(r), mag |-> r]

\* The float of a small integer.
FromInt(c) == Num(c < 0, <<Abs(c) * 2^26, 0>>)

\* The sign of a - b for two finite floats.
Cmp(a, b) ==
    IF a.neg # b.neg THEN (IF a.neg THEN -1 ELSE 1)
    ELSE IF a.neg THEN MagCmp(b.mag, a.mag)
    ELSE MagCmp(a.mag, b.mag)

\* f64 comparison operators: false as soon as one side is NaN.
FLt(a, b) == ~a.nan /\ ~b.nan /\ Cmp(a, b) < 0
FGt(a, b) == ~a.nan /\ ~b.nan /\ Cmp(a, b) > 0
FLe(a, b) == ~a.nan /\ ~b.nan /\ Cmp(a, b) <= 0
FGe(a, b) == ~a.nan /\ ~b.nan /\ Cmp(a, b) >= 0

\* f64 addition.
FAdd(a, b) ==
    IF a.nan \/ b.nan THEN NaN
    ELSE IF a.neg = b.neg THEN Num(a.neg, MagAdd(a.mag, b.mag))
    ELSE IF MagCmp(a.mag, b.mag) >= 0 THEN Num(a.neg, MagSub(a.mag, b.mag))
    ELSE Num(b.neg, MagSub(b.mag, a.mag))

\* f64 negation and subtraction.
FNeg(a) == IF a.nan THEN NaN ELSE Num(~a.neg, a.mag)

FSub(a, b) == FAdd(a, FNeg(b))

\* f64 multiplication of a float by an integer-valued float c.
FMulInt(a, c) ==
    IF a.nan THEN NaN ELSE Num(a.neg # (c < 0), MagTimes(a.mag, Abs(c)))

\* 1.0 / sqrt(n) as f64 computes it (both operations correctly rounded),
\* for the squared lengths n of the vectors that are normalized.
InvMagnitude(n) ==
    CASE n = 1 -> <<67108864, 0>>
      [] n = 2 -> <<47453132, 872013408>>
      [] n = 3 -> <<38745320, 746690792>>
      [] n = 4 -> <<33554432, 0>>
      [] n = 5 -> <<30011996, 385857380>>
      [] n = 6 -> <<27397079, 3191036>>
      [] n = 7 -> <<25364766, 446685080>>
      [] n = 8 -> <<23726566, 436006704>>
      [] n = 9 -> <<22369621, 357913940>>
      [] n = 10 -> <<21221686, 153166908>>
      [] n = 11 -> <<20234083, 878026904>>
      [] n = 12 -> <<19372660, 373345396>>
      [] n = 13 -> <<18612650, 15704664>>
      [] n = 14 -> <<17935598, 360747176>>
      [] n = 15 -> <<17327434, 190045032>>
      [] n = 16 -> <<16777216, 0>>
      [] n = 17 -> <<16276290, 296050232>>
      [] n = 18 -> <<15817710, 1006499022>>
      [] n = 19 -> <<15395829, 304706156>>
      [] n = 20 -> <<15005998, 192928690>>
      [] n = 21 -> <<14644354, 771176562>>
      [] n = 22 -> <<14307657, 943401630>>
      [] n = 23 -> <<13993165, 488548148>>
      [] n = 24 -> <<13698539, 538466430>>
      [] n = 25 -> <<13421772, 858993460>>
      [] n = 26 -> <<13161131, 44231736>>
      [] n = 27 -> <<12915106, 964724812>>
      [] n = 28 -> <<12682383, 223342540>>
      [] n = 29 -> <<12461803, 209549072>>
      [] n = 30 -> <<12252346, 222388528>>
      [] n = 31 -> <<12053107, 845457614>>
      [] n = 32 -> <<11863283, 218003352>>

(***************************************************************************)
(* collide.rs: Projection                                                  *)
(***************************************************************************)
ProjectionNew(start, end) ==
    IF FGt(start, end)
    THEN [start |-> end, end |-> start]
    ELSE [start |-> start, end |-> end]

\* A set_start that stores the value and never swaps.
SetStartNoSwap(p, start) == [start |-> start, end |-> p.end]

SetStart(p, start) ==
    LET q == [start |-> start, end |-> p.end]
    IN IF FGt(q.start, q.end) THEN [start |-> q.end, end |-> q.start] ELSE q

SetEnd(p, end) ==
    LET q == [start |-> p.start, end |-> end]
    IN IF FLt(q.end, q.start) THEN [start |-> q.end, end |-> q.start] ELSE q

Overlap(p, other) == ~(FGe(p.start, other.end) \/ FLe(p.end, other.start))

Contains(p, other) == FLe(p.start, other.start) /\ FGe(p.end, other.end)

(***************************************************************************)
(* math.rs: Vector2 = cgmath::Vector2<f64>.  A point is <<x, y>> with      *)
(* integer coordinates; a direction is [x, y] with float components.       *)
(***************************************************************************)
Sub(u, v) == <<u[1] - v[1], u[2] - v[2]>>

\* InnerSpace::normalize is self * (1 / self.magnitude()), the magnitude
\* being sqrt(x*x + y*y): the zero vector gives 0 * inf = NaN in both
\* components.
Normalize(v) ==
    LET n == v[1] * v[1] + v[2] * v[2]
    IN IF n = 0
       THEN [x |-> NaN, y |-> NaN]
       ELSE LET inv == Num(FALSE, InvMagnitude(n))
            IN [x |-> FMulInt(inv, v[1]), y |-> FMulInt(inv, v[2])]

\* axis.dot(v) = axis.x * v.x + axis.y * v.y for an axis and a point.
Dot(axis, v) == FAdd(FMulInt(axis.x, v[1]), FMulInt(axis.y, v[2]))

(***************************************************************************)
(* collide.rs: Circle and Polygon                                          *)
(***************************************************************************)
Circle(center, radius) ==
    [kind |-> "circle", center |-> center, radius |-> radius, verts |-> <<>>]

Polygon(verts) ==
    [kind |-> "polygon", center |-> <<0, 0>>, radius |-> 0, verts |-> verts]

IsCircle(s) == s.kind = "circle"

CircleVertices(s) == <<s.center>>

PolygonVertices(s) == s.verts

Vertices(s) == IF IsCircle(s) THEN CircleVertices(s) ELSE PolygonVertices(s)

CircleProject(s, axis) ==
    LET p == Dot(axis, s.center)
    IN ProjectionNew(FSub(p, FromInt(s.radius)), FAdd(p, FromInt(s.radius)))

\* The loop over the vertices after the first one.
RECURSIVE PolygonProjectFrom(_, _, _, _)
PolygonProjectFrom(verts, j, axis, pr) ==
    IF j > Len(verts) THEN pr
    ELSE LET p == Dot(axis, verts[j])
             nxt == IF FLt(p, pr.start) THEN SetStart(pr, p)
                    ELSE IF FGt(p, pr.end) THEN SetEnd(pr, p)
                    ELSE pr
         IN PolygonProjectFrom(verts, j + 1, axis, nxt)

\* iter.next().expect(...) panics on a polygon with no vertex.
ProjectPanics(s) == ~IsCircle(s) /\ Len(s.verts) = 0

\* Polygon::project, where it does not panic.
PolygonProject(s, axis) ==
    LET first == Dot(axis, s.verts[1])
    IN PolygonProjectFrom(s.verts, 2, axis, ProjectionNew(first, first))

Project(s, axis) ==
    IF IsCircle(s) THEN CircleProject(s, axis) ELSE PolygonProject(s, axis)

CircleAxis(s, other) ==
    LET vs == Vertices(other)
    IN IF Len(vs) = 0 THEN <<>>
       ELSE [j \in 1..Len(vs) |-> Normalize(Sub(s.center, vs[j]))]

\* The normal of the edge from u to v.
EdgeNormal(u, v) ==
    LET edge == Sub(v, u)
    IN Normalize(<<0 - edge[2], edge[1]>>)

\* zip(iter, iter.skip(1)) pairs vertex j with vertex j + 1, for j < N.
PolygonAxis(s, other) ==
    IF Len(s.verts) < 2 THEN <<>>
    ELSE [j \in 1..(Len(s.verts) - 1) |-> EdgeNormal(s.verts[j], s.verts[j + 1])]

Axis(s, other) == IF IsCircle(s) THEN CircleAxis(s, other) ELSE PolygonAxis(s, other)

\* One-sided variant of the axis chain: self's axes only.
SatAxesSelfOnly(a, b) == Axis(a, b)

\* self.axis(other).into_iter().chain(other.axis(self).into_iter())
SatAxes(a, b) == Axis(a, b) \o Axis(b, a)

\* Iterator::all over the chained axes, in order, stopping at the first
\* axis whose test fails; a projection that panics ends the call.
RECURSIVE SatAll(_, _, _, _, _)
SatAll(axes, j, a, b, test) ==
    IF j > Len(axes) THEN "true"
    ELSE IF ProjectPanics(a) \/ ProjectPanics(b) THEN "panic"
    ELSE LET pa == Project(a, axes[j])
             pb == Project(b, axes[j])
             ok == IF test = "overlap" THEN Overlap(pa, pb) ELSE Contains(pa, pb)
         IN IF ok THEN SatAll(axes, j + 1, a, b, test) ELSE "false"

Collide(a, b) == SatAll(SatAxes(a, b), 1, a, b, "overlap")

Contain(a, b) == SatAll(SatAxes(a, b), 1, a, b, "contains")

(***************************************************************************)
(* The shapes that are tried                                               *)
(***************************************************************************)
\* Vertices and centres: the corners of a right triangle with unit legs.
Points == {<<0, 0>>, <<1, 0>>, <<0, 1>>}

Circles == {Circle(c, r) : c \in Points, r \in 0..MaxRadius}

Polygons == {Polygon(vs) : vs \in UNION {[1..n -> Points] : n \in 0..MaxVerts}}

Shapes == Circles \cup Polygons

Floats == {FromInt(i) : i \in (0 - MaxVal)..MaxVal} \cup {NaN}

(***************************************************************************)
(* net/binary/decode.rs: Cursor, and net/binary/mod.rs: the codecs         *)
(***************************************************************************)
\* Byte values that are tried: three ASCII bytes and 0xFF.
ByteVals == {0, 1, 2, 255}

ByteSeqs == UNION {[1..n -> ByteVals] : n \in 0..MaxBytes}

Min(a, b) == IF a < b THEN a ELSE b

\* Cursor::read with a buffer of n bytes: the bytes copied into the buffer
\* and the value of self.cursor when the call returns.
CursorRead(bytes, cur, n) ==
    LET end == Min(cur + n, Len(bytes))
    IN [out |-> SubSeq(bytes, cur + 1, end), cursor |-> cur]

\* u16::from_le_bytes
U16FromLe(buf) == buf[1] + 256 * buf[2]

\* u16::to_le_bytes
U16ToLe(x) == <<x % 256, x \div 256>>

\* String::from_utf8 on the byte values that are tried: a byte below 0x80
\* is a character of its own, 0xFF is valid nowhere.
Utf8Valid(buf) == \A j \in 1..Len(buf) : buf[j] < 128

\* impl Decode for u8 / u16 (impl_num_decode!), for a size of 1 or 2 bytes.
DecodeNum(bytes, cur, size) ==
    LET r == CursorRead(bytes, cur, size)
    IN [ok |-> Len(r.out) >= size,
        err |-> IF Len(r.out) < size THEN "UnexpectedEnd" ELSE "none",
        val |-> IF Len(r.out) < size THEN <<>>
                ELSE IF size = 1 THEN <<r.out[1]>> ELSE <<U16FromLe(r.out)>>,
        cursor |-> r.cursor,
        reads |-> <<[at |-> cur, len |-> Len(r.out)]>>]

\* impl Decode for String
DecodeString(bytes, cur) ==
    LET c == DecodeNum(bytes, cur, 2)
    IN IF ~c.ok THEN c
       ELSE LET count == c.val[1]
                r == CursorRead(bytes, c.cursor, count)
                rs == c.reads \o <<[at |-> c.cursor, len |-> Len(r.out)]>>
            IN IF Len(r.out) < count
               THEN [ok |-> FALSE, err |-> "UnexpectedEnd", val |-> <<>>,
                     cursor |-> r.cursor, reads |-> rs]
               ELSE IF ~Utf8Valid(r.out)
               THEN [ok |-> FALSE, err |-> "Utf8", val |-> <<>>,
                     cursor |-> r.cursor, reads |-> rs]
               ELSE [ok |-> TRUE, err |-> "none", val |-> r.out,
                     cursor |-> r.cursor, reads |-> rs]

\* impl Encode for String into a fresh CursorMut (strings of at most 65535
\* bytes; longer ones are refused).
EncodeString(str) == U16ToLe(Len(str)) \o str

\* The number of bytes a list of reads handed out.
RECURSIVE ReadTotal(_)
ReadTotal(rs) == IF rs = <<>> THEN 0 ELSE Head(rs).len + ReadTotal(Tail(rs))

(***************************************************************************)
(* game/task.rs: TaskPool.  A slot holds 0 (None) or a task t > 0; ids     *)
(* count from 0, so slot id is pool[id + 1].                               *)
(***************************************************************************)
Tasks == 1..MaxTask

\* TaskPool::get and get_mut: the task at id, 0 for None.
PoolGet(p, id) == IF id < Len(p) THEN p[id + 1] ELSE 0

\* TaskPool::insert_with.  For id > len the usize subtraction len - id
\* overflows: a build with overflow checks panics there; a build without
\* them wraps to 2^64 - (id - len) and extend() asks for that many more
\* slots, which for the ids tried here is more than isize::MAX bytes and
\* panics with "capacity overflow".  Either way the call panics with the
\* pool as it was.
InsertWith(p, task, id) ==
    IF id > Len(p)
    THEN [panic |-> TRUE, old |-> 0, pool |-> p]
    ELSE LET grown == IF id >= Len(p)
                      THEN p \o [j \in 1..((Len(p) - id) + 1) |-> 0]
                      ELSE p
         IN [panic |-> FALSE, old |-> grown[id + 1],
             pool |-> [grown EXCEPT ![id + 1] = task]]

\* A first_empty that never reuses a freed slot.
FirstEmptyAppend(p) == Len(p)

\* TaskPool::first_empty
FirstEmpty(p) ==
    IF \E j \in 1..Len(p) : p[j] = 0
    THEN (CHOOSE j \in 1..Len(p) : p[j] = 0 /\ \A h \in 1..(j - 1) : p[h] # 0) - 1
    ELSE Len(p)

\* TaskPool::insert
Insert(p, task) ==
    LET id == FirstEmpty(p)
        r == InsertWith(p, task, id)
    IN [panic |-> r.panic, id |-> id, pool |-> r.pool]

\* TaskPool::clear
Clear(p) == [j \in 1..Len(p) |-> 0]

(***************************************************************************)
(* States of the parts a specification leaves alone                        *)
(***************************************************************************)
IdleProjection ==
    /\ proj = ProjectionNew(FromInt(0), FromInt(0))
    /\ projOp = [op |-> "none", a |-> NaN, b |-> NaN]

IdleGeometry ==
    /\ shapeA = Polygon(<<>>)
    /\ shapeB = Polygon(<<>>)
    /\ geoOp = "none"
    /\ geoResult = "none"
    /\ geoAxes = <<>>

IdleCursor ==
    /\ inner = <<>>
    /\ cursor = 0
    /\ returned = 0
    /\ curOp = [op |-> "new", before |-> 0, reads |-> <<>>, ok |-> TRUE,
                err |-> "none", val |-> <<>>]

IdlePool ==
    /\ pool = <<>>
    /\ poolOp = [op |-> "none", id |-> 0, task |-> 0, ret |-> 0, prev |-> <<>>]
    /\ panicked = FALSE

(***************************************************************************)
(* Projection: construction and the two setters                            *)
(***************************************************************************)
InitProjection ==
    /\ \E a \in Floats, b \in Floats :
          /\ proj = ProjectionNew(a, b)
          /\ projOp = [op |-> "new", a |-> a, b |-> b]
    /\ IdleGeometry /\ IdleCursor /\ IdlePool

DoProjectionNew ==
    /\ \E a \in Floats, b \in Floats :
          /\ proj' = ProjectionNew(a, b)
          /\ projOp' = [op |-> "new", a |-> a, b |-> b]
    /\ UNCHANGED <<geoVars, curVars, poolVars>>

DoSetStart ==
    /\ \E v \in Floats :
          /\ proj' = SetStart(proj, v)
          /\ projOp' = [op |-> "set_start", a |-> v, b |-> proj.end]
    /\ UNCHANGED <<geoVars, curVars, poolVars>>

DoSetEnd ==
    /\ \E v \in Floats :
          /\ proj' = SetEnd(proj, v)
          /\ projOp' = [op |-> "set_end", a |-> v, b |-> proj.start]
    /\ UNCHANGED <<geoVars, curVars, poolVars>>

NextProjection == DoProjectionNew \/ DoSetStart \/ DoSetEnd

SpecProjection == InitProjection /\ [][NextProjection]_vars

(***************************************************************************)
(* Geometry: axis, collide, contain and push on a pair of shapes           *)
(***************************************************************************)
InitGeometry ==
    /\ shapeA \in Shapes
    /\ shapeB \in Shapes
    /\ geoOp = "none"
    /\ geoResult = "none"
    /\ geoAxes = <<>>
    /\ IdleProjection /\ IdleCursor /\ IdlePool

DoAxis ==
    /\ geoOp' = "axis"
    /\ geoAxes' = Axis(shapeA, shapeB)
    /\ geoResult' = "none"
    /\ UNCHANGED <<shapeA, shapeB, projVars, curVars, poolVars>>

DoCollide ==
    /\ geoOp' = "collide"
    /\ geoResult' = Collide(shapeA, shapeB)
    /\ geoAxes' = <<>>
    /\ UNCHANGED <<shapeA, shapeB, projVars, curVars, poolVars>>

DoContain ==
    /\ geoOp' = "contain"
    /\ geoResult' = Contain(shapeA, shapeB)
    /\ geoAxes' = <<>>
    /\ UNCHANGED <<shapeA, shapeB, projVars, curVars, poolVars>>

\* Polygon::push on either polygon.
DoPush ==
    /\ \E v \in Points :
          \/ /\ ~IsCircle(shapeA) /\ Len(shapeA.verts) < MaxVerts
             /\ shapeA' = Polygon(Append(shapeA.verts, v))
             /\ shapeB' = shapeB
          \/ /\ ~IsCircle(shapeB) /\ Len(shapeB.verts) < MaxVerts
             /\ shapeB' = Polygon(Append(shapeB.verts, v))
             /\ shapeA' = shapeA
    /\ geoOp' = "push"
    /\ geoResult' = "none"
    /\ geoAxes' = <<>>
    /\ UNCHANGED <<projVars, curVars, poolVars>>

NextGeometry == DoAxis \/ DoCollide \/ DoContain \/ DoPush

SpecGeometry == InitGeometry /\ [][NextGeometry]_vars

(***************************************************************************)
(* Cursor: Cursor::new over some bytes, then reads and decodes             *)
(***************************************************************************)
InitCursor ==
    /\ inner \in ByteSeqs
    /\ cursor = 0
    /\ returned = 0
    /\ curOp = [op |-> "new", before |-> 0, reads |-> <<>>, ok |-> TRUE,
                err |-> "none", val |-> <<>>]
    /\ IdleProjection /\ IdleGeometry /\ IdlePool

\* The effect of one decoding call whose outcome is r.
CursorStep(name, r) ==
    /\ returned + ReadTotal(r.reads) <= MaxReturned
    /\ cursor' = r.cursor
    /\ returned' = returned + ReadTotal(r.reads)
    /\ curOp' = [op |-> name, before |-> returned, reads |-> r.reads,
                 ok |-> r.ok, err |-> r.err, val |-> r.val]
    /\ UNCHANGED <<inner, projVars, geoVars, poolVars>>

DoRead ==
    \E n \in 0..MaxBuf :
        LET r == CursorRead(inner, cursor, n)
        IN CursorStep("read", [ok |-> TRUE, err |-> "none", val |-> r.out,
                               cursor |-> r.cursor,
                               reads |-> <<[at |-> cursor, len |-> Len(r.out)]>>])

DoDecodeU8 == CursorStep("decode_u8", DecodeNum(inner, cursor, 1))

DoDecodeU16 == CursorStep("decode_u16", DecodeNum(inner, cursor, 2))

DoDecodeString == CursorStep("decode_string", DecodeString(inner, cursor))

\* CursorMut::new, encode(&string), into(), and Cursor::new over the bytes.
DoEncodeString ==
    /\ \E str \in ByteSeqs :
          /\ Len(str) + 2 <= MaxBytes
          /\ Utf8Valid(str)
          /\ inner' = EncodeString(str)
    /\ cursor' = 0
    /\ returned' = 0
    /\ curOp' = [op |-> "new", before |-> 0, reads |-> <<>>, ok |-> TRUE,
                 err |-> "none", val |-> <<>>]
    /\ UNCHANGED <<projVars, geoVars, poolVars>>

NextCursor == DoRead \/ DoDecodeU8 \/ DoDecodeU16 \/ DoDecodeString \/ DoEncodeString

SpecCursor == InitCursor /\ [][NextCursor]_vars

(***************************************************************************)
(* TaskPool: an empty pool, then get, insert_with, insert and clear        *)
(***************************************************************************)
InitPool ==
    /\ IdlePool
    /\ IdleProjection /\ IdleGeometry /\ IdleCursor

DoGet ==
    /\ ~panicked
    /\ \E id \in 0..MaxPoolLen :
          poolOp' = [op |-> "get", id |-> id, task |-> 0, ret |-> PoolGet(pool, id),
                     prev |-> pool]
    /\ UNCHANGED <<pool, panicked, projVars, geoVars, curVars>>

DoInsertWith ==
    /\ ~panicked
    /\ \E task \in Tasks, id \in 0..MaxPoolLen :
          LET r == InsertWith(pool, task, id)
          IN /\ Len(r.pool) <= MaxPoolLen
             /\ pool' = r.pool
             /\ panicked' = r.panic
             /\ poolOp' = [op |-> "insert_with", id |-> id, task |-> task,
                         ret |-> r.old, prev |-> pool]
    /\ UNCHANGED <<projVars, geoVars, curVars>>

DoInsert ==
    /\ ~panicked
    /\ \E task \in Tasks :
          LET r == Insert(pool, task)
          IN /\ Len(r.pool) <= MaxPoolLen
             /\ pool' = r.pool
             /\ panicked' = r.panic
             /\ poolOp' = [op |-> "insert", id |-> r.id, task |-> task,
                         ret |-> r.id, prev |-> pool]
    /\ UNCHANGED <<projVars, geoVars, curVars>>

DoClear ==
    /\ ~panicked
    /\ pool' = Clear(pool)
    /\ poolOp' = [op |-> "clear", id |-> 0, task |-> 0, ret |-> 0, prev |-> pool]
    /\ UNCHANGED <<panicked, projVars, geoVars, curVars>>

NextPool == DoGet \/ DoInsertWith \/ DoInsert \/ DoClear

SpecPool == InitPool /\ [][NextPool]_vars

(***************************************************************************)
(* Properties of Projection                                                *)
(***************************************************************************)
\* C1 as stated: start <= end holds after construction and after every
\* set_start / set_end call, for any f64 arguments.
C1_OrderedAlways == FLe(proj.start, proj.end)

\* C1: after construction and after every set_start / set_end call,
\* start <= end holds whenever neither stored endpoint is NaN.
C1_OrderedUnlessNaN ==
    (~proj.start.nan /\ ~proj.end.nan) => FLe(proj.start, proj.end)

\* set_start was called with a value above the old end, and swapped.
C1_Witness ==
    /\ projOp.op = "set_start"
    /\ ~projOp.a.nan /\ ~projOp.b.nan
    /\ FGt(projOp.a, projOp.b)
    /\ proj.end = projOp.a
    /\ proj.start = projOp.b

(***************************************************************************)
(* Properties of collide, contain and axis                                 *)
(***************************************************************************)
NonEmpty(s) == IsCircle(s) \/ Len(s.verts) >= 1

HasNaN(axes) == \E j \in 1..Len(axes) : axes[j].x.nan \/ axes[j].y.nan

\* C2: for shapes with at least one vertex, A.collide(B) returns what
\* B.collide(A) returns.
C2_CollideSymmetric ==
    (geoOp = "collide" /\ NonEmpty(shapeA) /\ NonEmpty(shapeB))
        => geoResult = Collide(shapeB, shapeA)

\* A circle was collided with a polygon that has edges, each side
\* contributing its own axes, none of them NaN, and they do collide.
C2_Witness ==
    /\ geoOp = "collide"
    /\ IsCircle(shapeA) /\ ~IsCircle(shapeB) /\ Len(shapeB.verts) >= 2
    /\ ~HasNaN(SatAxes(shapeA, shapeB))
    /\ geoResult = "true"

\* C3: A.collide(A) and A.contain(A) return true for every shape with at
\* least one vertex.
C3_Reflexive ==
    (geoOp \in {"collide", "contain"} /\ shapeA = shapeB /\ NonEmpty(shapeA))
        => geoResult = "true"

\* C4: if A.contain(B) returns true then A.collide(B) returns true.
C4_ContainImpliesCollide ==
    (geoOp = "contain" /\ NonEmpty(shapeA) /\ NonEmpty(shapeB) /\ geoResult = "true")
        => Collide(shapeA, shapeB) = "true"

\* The normals of all N edges of the closed loop, the closing edge included.
ClosedLoopAxes(verts) ==
    [j \in 1..Len(verts) |-> EdgeNormal(verts[j], verts[(j % Len(verts)) + 1])]

\* C5: Polygon::axis on N >= 3 vertices returns the normal of the edge from
\* vertex i to vertex (i+1) mod N for every i, N axes in all.
C5_AxisPerLoopEdge ==
    (geoOp = "axis" /\ ~IsCircle(shapeA) /\ Len(shapeA.verts) >= 3)
        => geoAxes = ClosedLoopAxes(shapeA.verts)

\* C6: collide or contain with a zero-vertex Polygon on either side never
\* returns a boolean: it aborts.
C6_EmptyPolygonAborts ==
    (geoOp \in {"collide", "contain"}
        /\ (ProjectPanics(shapeA) \/ ProjectPanics(shapeB)))
        => geoResult = "panic"

\* C7: axis generation never emits a normalized zero vector, and collide or
\* contain never computes a boolean from such an axis.
C7_NoZeroVectorAxis ==
    /\ geoOp = "axis" => ~HasNaN(geoAxes)
    /\ (geoOp \in {"collide", "contain"} /\ HasNaN(SatAxes(shapeA, shapeB)))
          => geoResult \notin {"true", "false"}

(***************************************************************************)
(* Properties of Cursor                                                    *)
(***************************************************************************)
\* C8: every read starts where the reads before it ended, the bytes handed
\* out never exceed the input, and a decoded String is the bytes after its
\* 2-byte length prefix.
C8_SequentialReads ==
    /\ \A j \in 1..Len(curOp.reads) :
          curOp.reads[j].at = curOp.before + ReadTotal(SubSeq(curOp.reads, 1, j - 1))
    /\ returned <= Len(inner)
    /\ (curOp.op = "decode_string" /\ curOp.ok)
          => curOp.val = SubSeq(inner, curOp.before + 3,
                                curOp.before + 2 + Len(curOp.val))

(***************************************************************************)
(* Properties of TaskPool                                                  *)
(***************************************************************************)
\* C9: insert_with(task, id) succeeds for every id and pool: it returns the
\* task previously at id (None if none) and get(id) then returns the task.
C9_InsertWithSucceeds ==
    poolOp.op = "insert_with"
        => /\ ~panicked
           /\ poolOp.ret = PoolGet(poolOp.prev, poolOp.id)
           /\ PoolGet(pool, poolOp.id) = poolOp.task

\* C10: unless the call is clear, a task stored under an id is still under
\* that id after the call (insert_with at that very id aside); insert
\* returns the lowest id that held no task and stores the task there.
C10_IdsConsistent ==
    /\ poolOp.op \in {"get", "insert_with", "insert"}
          => \A id \in 0..(MaxPoolLen + 1) :
                (PoolGet(poolOp.prev, id) # 0
                    /\ ~(poolOp.op = "insert_with" /\ poolOp.id = id))
                    => PoolGet(pool, id) = PoolGet(poolOp.prev, id)
    /\ poolOp.op = "insert"
          => /\ PoolGet(poolOp.prev, poolOp.ret) = 0
             /\ \A j \in 0..(poolOp.ret - 1) : PoolGet(poolOp.prev, j) # 0
             /\ PoolGet(pool, poolOp.ret) = poolOp.task

\* insert reused the freed id 0 while another task stayed under id 1.
C10_Witness ==
    /\ poolOp.op = "insert"
    /\ poolOp.ret = 0
    /\ Len(poolOp.prev) >= 2
    /\ PoolGet(poolOp.prev, 1) # 0
    /\ PoolGet(pool, 1) = PoolGet(poolOp.prev, 1)
    /\ PoolGet(pool, 0) = poolOp.task

====
